---------------------------- MODULE Spec2Model ----------------------------
(***************************************************************************)
(* The Universal Machine interpreter of src/src/lib.rs: struct Cpu, the    *)
(* Operator decoder, the fourteen operator handlers and Cpu::spin_cycle.   *)
(*                                                                         *)
(* A u32 is the pair <<hi, lo>> of its 16-bit halves (TLC's integers are   *)
(* narrower than 2^32), so that every word keeps its full 32-bit width.    *)
(***************************************************************************)
EXTENDS Integers, Sequences, FiniteSets, TLC

VARIABLES
    regs,     \* Cpu.regs: [u32; 8]
    pc,       \* Cpu.pc: u32
    halted,   \* Cpu.halted: bool
    memory,   \* Cpu.memory: HashMap<u32, Box<[u32]>>
    reuse,    \* Cpu.reuse: Vec<u32>
    fault,    \* "none", or the panic / fail! that ended the process
    out,      \* bytes written to stdout
    inp,      \* bytes of stdin not yet read
    cycles,   \* operators executed so far
    last      \* the operator executed last: its number, the identifier it
              \* worked on and whether Allocation took it from the pool

vars == <<regs, pc, halted, memory, reuse, fault, out, inp, cycles, last>>

cpu == <<regs, pc, halted, memory, reuse>>

(***************************************************************************)
(* Bounds of the model.                                                    *)
(***************************************************************************)
\* operators executed in one run
MaxCycles == 4
\* largest capacity an Allocation is given
MaxCap == 2

\* register indices the operator words of the model name
RegSel == {0, 1}
\* immediates of the Orthography words of the model
Immediates == {2}

(***************************************************************************)
(* 32-bit words.                                                           *)
(***************************************************************************)
Half == 2 ^ 16

\* the word of a natural number below 2^31
W(n) == <<n \div Half, n % Half>>

\* u32::MAX
U32Max == <<Half - 1, Half - 1>>

RECURSIVE AndBits(_, _)
AndBits(a, b) ==
    IF a = 0 \/ b = 0 THEN 0
    ELSE (a % 2) * (b % 2) + 2 * AndBits(a \div 2, b \div 2)

\* the bitwise and of two 4-bit numbers x, y, at 16 * x + y
AndNibble == [i \in 0 .. 255 |-> AndBits(i \div 16, i % 16)]

\* the bitwise and of two 16-bit numbers, nibble by nibble
And16(a, b) ==
    IF a = 0 \/ b = 0 THEN 0
    ELSE AndNibble[16 * (a % 16) + (b % 16)]
         + 16 * AndNibble[16 * ((a \div 16) % 16) + ((b \div 16) % 16)]
         + 256 * AndNibble[16 * ((a \div 256) % 16) + ((b \div 256) % 16)]
         + 4096 * AndNibble[16 * (a \div 4096) + (b \div 4096)]

\* a & b
BitAnd(a, b) == <<And16(a[1], b[1]), And16(a[2], b[2])>>

\* !a
BitNot(a) == <<Half - 1 - a[1], Half - 1 - a[2]>>

\* (a >> n) as usize, for a word whose bits at and above n + 15 are clear
Shr(a, n) ==
    IF n >= 16 THEN a[1] \div (2 ^ (n - 16))
    ELSE a[1] * (2 ^ (16 - n)) + (a[2] \div (2 ^ n))

\* the product of two 16-bit numbers, as a word
Mul16(x, y) ==
    LET p == (x % 256) * y
        q == (x \div 256) * y
        t == (q % 256) * 256 + p
    IN  <<(q \div 256) + (t \div Half), t % Half>>

\* a + b wrapped to 32 bits, and whether the true sum needs more
AddWrap(a, b) ==
    LET l == a[2] + b[2]
        h == a[1] + b[1] + (l \div Half)
    IN  <<h % Half, l % Half>>

AddOverflows(a, b) == a[1] + b[1] + ((a[2] + b[2]) \div Half) >= Half

\* a * b wrapped to 32 bits, and whether the true product needs more
MulWrap(a, b) ==
    LET ll == Mul16(a[2], b[2])
        x1 == Mul16(a[1], b[2])
        x2 == Mul16(a[2], b[1])
    IN  <<(ll[1] + x1[2] + x2[2]) % Half, ll[2]>>

MulOverflows(a, b) ==
    LET ll == Mul16(a[2], b[2])
        x1 == Mul16(a[1], b[2])
        x2 == Mul16(a[2], b[1])
    IN  \/ (a[1] # 0 /\ b[1] # 0)
        \/ x1[1] # 0
        \/ x2[1] # 0
        \/ ll[1] + x1[2] + x2[2] >= Half

\* a % u32::MAX, for a 32-bit a
RemU32Max(a) == IF a = U32Max THEN W(0) ELSE a

\* bit i of a
Bit(a, i) ==
    IF i >= 16 THEN (a[1] \div (2 ^ (i - 16))) % 2 ELSE (a[2] \div (2 ^ i)) % 2

RECURSIVE DivBits(_, _, _, _)
\* long division: the quotient bits i..0 of a / b, r the remainder so far
DivBits(a, b, i, r) ==
    IF i < 0 THEN <<0, 0>>
    ELSE LET l  == 2 * r[2] + Bit(a, i)
             r2 == <<2 * r[1] + (l \div Half), l % Half>>
             ge == r2[1] > b[1] \/ (r2[1] = b[1] /\ r2[2] >= b[2])
             d  == IF r2[2] >= b[2] THEN <<r2[1] - b[1], r2[2] - b[2]>>
                   ELSE <<r2[1] - b[1] - 1, r2[2] + Half - b[2]>>
             q  == DivBits(a, b, i - 1, IF ge THEN d ELSE r2)
         IN  IF ~ge THEN q
             ELSE IF i >= 16 THEN <<q[1] + 2 ^ (i - 16), q[2]>>
             ELSE <<q[1], q[2] + 2 ^ i>>

\* a / b, unsigned, b # 0
DivW(a, b) == DivBits(a, b, 31, <<0, 0>>)

\* slice[offset as usize] is in range
InRange(offset, array) == offset[1] = 0 /\ offset[2] < Len(array)

At(array, offset) == array[offset[2] + 1]

(***************************************************************************)
(* struct Operator(u32): the decoder.                                      *)
(***************************************************************************)
\* A shifting by 5 instead of 6
A_shift5(op) == Shr(BitAnd(op, <<0, 448>>), 5)

A(op) == Shr(BitAnd(op, <<0, 448>>), 6)

B(op) == Shr(BitAnd(op, <<0, 56>>), 3)

C(op) == Shr(BitAnd(op, <<0, 7>>), 0)

number(op) == Shr(BitAnd(op, <<61440, 0>>), 28)

A_special(op) == Shr(BitAnd(op, <<3584, 0>>), 25)

\* value with the 25-bit mask 0x01ffffff
value_25bits(op) == BitAnd(op, <<511, Half - 1>>)

value(op) == BitAnd(op, <<255, Half - 1>>)

\* the instruction word of a standard operator, and of an Orthography
Standard(n, a, b, c) == <<n * 4096, a * 64 + b * 8 + c>>

Special(a, v) == <<13 * 4096 + a * 512 + v[1], v[2]>>

\* the operator words the model executes: every operator number 0..15 on the
\* registers of RegSel, and Orthography of the immediates
OpWords ==
    {Standard(n, a, b, c) : n \in (0 .. 12) \cup {14, 15}, a \in RegSel,
                            b \in RegSel, c \in RegSel}
    \cup {Special(a, W(v)) : a \in RegSel, v \in Immediates}

ByNumber == [n \in 0 .. 15 |-> {w \in OpWords : number(w) = n}]


\* Orthography words with bit 24 of the immediate set: 0xD1000001, and the
\* words of test_operator_special's shape (bits 27..24 set, lines 253-256),
\* 0xDF00ACAB and 0xDFFFFFFF
WideSpecials ==
    {Special(0, <<256, 1>>), Special(7, <<256, 44203>>),
     Special(7, <<511, Half - 1>>)}

\* standard words that name the high registers: test_operator's 0xE00001AC
\* (line 240) and words with one field of 7
HighFields ==
    {Standard(14, 6, 5, 4), Standard(0, 7, 0, 0), Standard(6, 0, 7, 0),
     Standard(12, 0, 0, 7), Standard(3, 5, 2, 3)}

\* the operator words of the images the model starts from
ImageWords ==
    {Standard(n, 0, 0, c) : n \in (0 .. 12) \cup {14}, c \in RegSel}
    \cup {Special(a, W(2)) : a \in RegSel}
    \cup WideSpecials \cup HighFields

\* the program scrolls Cpu::new is given
\* the image [0xD0000041, 0xA0000000, 0x70000000]: Orthography R0 <- 65,
\* Output R0, Halt
ScenarioA ==
    <<Special(0, W(65)), Standard(10, 0, 0, 0), Standard(7, 0, 0, 0)>>

Images ==
    {<<>>, ScenarioA} \cup {<<w>> : w \in ImageWords}
    \cup {<<w, v>> : w \in ImageWords, v \in ImageWords}

\* what stdin holds
Stdins == {<<>>, <<65>>}

(***************************************************************************)
(* Cpu::new                                                                *)
(***************************************************************************)
NoOperator == [num |-> 16, idx |-> W(0), reused |-> FALSE]

new(program_scroll) ==
    /\ regs = [r \in 0 .. 7 |-> W(0)]
    /\ pc = W(0)
    /\ halted = FALSE
    /\ memory = (W(0) :> program_scroll)
    /\ reuse = <<>>

Init ==
    /\ \E program_scroll \in Images : new(program_scroll)
    /\ fault = "none"
    /\ out = <<>>
    /\ inp \in Stdins
    /\ cycles = 0
    /\ last = NoOperator

(***************************************************************************)
(* The operator handlers.                                                  *)
(***************************************************************************)
\* a panic or fail!: the process ends where it stands
Fatal(msg) ==
    /\ fault' = msg
    /\ UNCHANGED <<regs, pc, halted, memory, reuse, out, inp>>

conditional_move(op) ==
    /\ regs' = IF regs[C(op)] # W(0)
               THEN [regs EXCEPT ![A(op)] = regs[B(op)]]
               ELSE regs
    /\ UNCHANGED <<pc, halted, memory, reuse, fault, out, inp>>

array_index(op) ==
    LET idx    == regs[B(op)]
        offset == regs[C(op)]
    IN  IF idx \notin DOMAIN memory THEN Fatal("no array at index")
        ELSE IF ~InRange(offset, memory[idx]) THEN Fatal("index out of bounds")
        ELSE /\ regs' = [regs EXCEPT ![A(op)] = At(memory[idx], offset)]
             /\ UNCHANGED <<pc, halted, memory, reuse, fault, out, inp>>

\* array_amendment, were array 0 to share its storage with the array a Load
\* Program copied it from: the write shows in array 0 too
array_amendment_aliased(op) ==
    LET idx    == regs[A(op)]
        offset == regs[B(op)]
    IN  IF idx \notin DOMAIN memory THEN Fatal("no array at index")
        ELSE IF ~InRange(offset, memory[idx]) THEN Fatal("index out of bounds")
        ELSE /\ memory' = [k \in DOMAIN memory |->
                             IF k \in {idx, W(0)} /\ InRange(offset, memory[k])
                             THEN [memory[k] EXCEPT ![offset[2] + 1] = regs[C(op)]]
                             ELSE memory[k]]
             /\ UNCHANGED <<regs, pc, halted, reuse, fault, out, inp>>

array_amendment(op) ==
    LET idx    == regs[A(op)]
        offset == regs[B(op)]
    IN  IF idx \notin DOMAIN memory THEN Fatal("no array at index")
        ELSE IF ~InRange(offset, memory[idx]) THEN Fatal("index out of bounds")
        ELSE /\ memory' = [memory EXCEPT ![idx][offset[2] + 1] = regs[C(op)]]
             /\ UNCHANGED <<regs, pc, halted, reuse, fault, out, inp>>

\* whether the build checks u32 arithmetic for overflow (debug) or wraps
\* (release): an overflowing operation has both outcomes
OverflowChecks(overflows) == IF overflows THEN {TRUE, FALSE} ELSE {FALSE}

addition(op) ==
    LET b == regs[B(op)]
        c == regs[C(op)]
    IN  \E checked \in OverflowChecks(AddOverflows(b, c)) :
            IF checked THEN Fatal("attempt to add with overflow")
            ELSE /\ regs' = [regs EXCEPT ![A(op)] = RemU32Max(AddWrap(b, c))]
                 /\ UNCHANGED <<pc, halted, memory, reuse, fault, out, inp>>

multiplication(op) ==
    LET b == regs[B(op)]
        c == regs[C(op)]
    IN  \E checked \in OverflowChecks(MulOverflows(b, c)) :
            IF checked THEN Fatal("attempt to multiply with overflow")
            ELSE /\ regs' = [regs EXCEPT ![A(op)] = RemU32Max(MulWrap(b, c))]
                 /\ UNCHANGED <<pc, halted, memory, reuse, fault, out, inp>>

division(op) ==
    IF regs[C(op)] = W(0) THEN Fatal("attempt to divide by zero")
    ELSE /\ regs' = [regs EXCEPT ![A(op)] = DivW(regs[B(op)], regs[C(op)])]
         /\ UNCHANGED <<pc, halted, memory, reuse, fault, out, inp>>

not_and(op) ==
    /\ regs' = [regs EXCEPT ![A(op)] = BitNot(BitAnd(regs[B(op)], regs[C(op)]))]
    /\ UNCHANGED <<pc, halted, memory, reuse, fault, out, inp>>

halt(op) ==
    /\ halted' = TRUE
    /\ UNCHANGED <<regs, pc, memory, reuse, fault, out, inp>>

\* the identifier Allocation binds: lines 156-160
allocation_idx ==
    IF reuse # <<>> THEN reuse[Len(reuse)]
    ELSE W(Cardinality(DOMAIN memory) + 1)

\* memory.insert(idx, array)
insert(idx, array) ==
    [k \in DOMAIN memory \cup {idx} |-> IF k = idx THEN array ELSE memory[k]]

\* allocation minting memory.len() - 1 and ignoring what insert returns
allocation_unchecked(op) ==
    LET idx   == IF reuse # <<>> THEN reuse[Len(reuse)]
                 ELSE W(Cardinality(DOMAIN memory) - 1)
        array == [i \in 1 .. regs[C(op)][2] |-> W(0)]
    IN  /\ regs[C(op)][1] = 0
        /\ regs[C(op)][2] <= MaxCap
        /\ reuse' = IF reuse # <<>> THEN SubSeq(reuse, 1, Len(reuse) - 1)
                    ELSE reuse
        /\ memory' = insert(idx, array)
        /\ UNCHANGED <<regs, pc, halted, fault, out, inp>>

\* allocation reading the pool's last identifier without popping it
allocation_no_pop(op) ==
    LET idx   == allocation_idx
        array == [i \in 1 .. regs[C(op)][2] |-> W(0)]
    IN  /\ regs[C(op)][1] = 0
        /\ regs[C(op)][2] <= MaxCap
        /\ memory' = insert(idx, array)
        /\ fault' = IF idx \in DOMAIN memory
                    THEN "BUG: index incorrectly calculated"
                    ELSE fault
        /\ UNCHANGED <<regs, pc, halted, reuse, out, inp>>

\* enabled for capacities up to MaxCap only
allocation(op) ==
    LET idx   == allocation_idx
        array == [i \in 1 .. regs[C(op)][2] |-> W(0)]
    IN  /\ regs[C(op)][1] = 0
        /\ regs[C(op)][2] <= MaxCap
        /\ reuse' = IF reuse # <<>> THEN SubSeq(reuse, 1, Len(reuse) - 1)
                    ELSE reuse
        /\ memory' = insert(idx, array)
        /\ fault' = IF idx \in DOMAIN memory
                    THEN "BUG: index incorrectly calculated"
                    ELSE fault
        /\ UNCHANGED <<regs, pc, halted, out, inp>>

\* abandonment pushing the identifier without removing its array
abandonment_keeps_array(op) ==
    LET idx == regs[C(op)]
    IN  IF idx = W(0) THEN Fatal("attempt to abandon the 0 array")
        ELSE IF idx \notin DOMAIN memory THEN Fatal("removing in-use index")
        ELSE /\ reuse' = Append(reuse, idx)
             /\ UNCHANGED <<regs, pc, halted, memory, fault, out, inp>>

\* abandonment without the test for identifier 0
abandonment_of_zero(op) ==
    LET idx == regs[C(op)]
    IN  IF idx \notin DOMAIN memory THEN Fatal("removing in-use index")
        ELSE /\ memory' = [k \in DOMAIN memory \ {idx} |-> memory[k]]
             /\ reuse' = Append(reuse, idx)
             /\ UNCHANGED <<regs, pc, halted, fault, out, inp>>

\* abandonment forgetting to push the identifier onto the pool
abandonment_no_push(op) ==
    LET idx == regs[C(op)]
    IN  IF idx = W(0) THEN Fatal("attempt to abandon the 0 array")
        ELSE IF idx \notin DOMAIN memory THEN Fatal("removing in-use index")
        ELSE /\ memory' = [k \in DOMAIN memory \ {idx} |-> memory[k]]
             /\ UNCHANGED <<regs, pc, halted, reuse, fault, out, inp>>

\* abandonment ignoring what remove returns: an identifier that is not live
\* is pushed all the same
abandonment_unchecked(op) ==
    LET idx == regs[C(op)]
    IN  IF idx = W(0) THEN Fatal("attempt to abandon the 0 array")
        ELSE /\ memory' = [k \in DOMAIN memory \ {idx} |-> memory[k]]
             /\ reuse' = Append(reuse, idx)
             /\ UNCHANGED <<regs, pc, halted, fault, out, inp>>

\* abandonment removing every array but the program
abandonment_clears(op) ==
    LET idx == regs[C(op)]
    IN  IF idx = W(0) THEN Fatal("attempt to abandon the 0 array")
        ELSE IF idx \notin DOMAIN memory THEN Fatal("removing in-use index")
        ELSE /\ memory' = [k \in {W(0)} |-> memory[k]]
             /\ reuse' = Append(reuse, idx)
             /\ UNCHANGED <<regs, pc, halted, fault, out, inp>>

abandonment(op) ==
    LET idx == regs[C(op)]
    IN  IF idx = W(0) THEN Fatal("attempt to abandon the 0 array")
        ELSE IF idx \notin DOMAIN memory THEN Fatal("removing in-use index")
        ELSE /\ memory' = [k \in DOMAIN memory \ {idx} |-> memory[k]]
             /\ reuse' = Append(reuse, idx)
             /\ UNCHANGED <<regs, pc, halted, fault, out, inp>>

output(op) ==
    /\ out' = Append(out, regs[C(op)][2] % 256)
    /\ UNCHANGED <<regs, pc, halted, memory, reuse, fault, inp>>

input(op) ==
    IF inp = <<>> THEN Fatal("Could not read from stdin")
    ELSE /\ regs' = [regs EXCEPT ![C(op)] = W(Head(inp))]
         /\ inp' = Tail(inp)
         /\ UNCHANGED <<pc, halted, memory, reuse, fault, out>>

\* load_program taking the source array out of memory instead of cloning it
load_program_moves(op) ==
    LET idx == regs[B(op)]
    IN  IF idx \notin DOMAIN memory THEN Fatal("no array at index")
        ELSE /\ memory' = [k \in (DOMAIN memory \ {idx}) \cup {W(0)} |->
                             IF k = W(0) THEN memory[idx] ELSE memory[k]]
             /\ pc' = W(C(op))
             /\ UNCHANGED <<regs, halted, reuse, fault, out, inp>>

load_program(op) ==
    LET idx == regs[B(op)]
    IN  IF idx \notin DOMAIN memory THEN Fatal("no array at index")
        ELSE /\ memory' = insert(W(0), memory[idx])
             /\ pc' = W(C(op))
             /\ UNCHANGED <<regs, halted, reuse, fault, out, inp>>

orthography(op) ==
    /\ regs' = [regs EXCEPT ![A_special(op)] = value(op)]
    /\ UNCHANGED <<pc, halted, memory, reuse, fault, out, inp>>

(***************************************************************************)
(* Cpu::spin_cycle                                                         *)
(***************************************************************************)
\* the identifier the operator works on, read before it runs
Subject(op) ==
    LET n == number(op)
    IN  CASE n = 1 -> regs[B(op)]
          [] n = 2 -> regs[A(op)]
          [] n = 8 -> allocation_idx
          [] n = 9 -> regs[C(op)]
          [] n = 12 -> regs[B(op)]
          [] OTHER -> W(0)

\* one more operator has run
Executed(op) ==
    /\ cycles' = cycles + 1
    /\ last' = [num |-> number(op), idx |-> Subject(op),
                reused |-> (number(op) = 8 /\ reuse # <<>>)]

\* the loop condition left out: the loop goes on after Halt
Running_ignores_halt == fault = "none" /\ cycles < MaxCycles

\* while !self.halted, as long as the process lives
Running == ~halted /\ fault = "none" /\ cycles < MaxCycles

CanFetch == W(0) \in DOMAIN memory /\ InRange(pc, memory[W(0)])

Fetched == At(memory[W(0)], pc)

\* line 94 panics: no array 0, or pc beyond its end
FetchPanic ==
    /\ Running
    /\ ~CanFetch
    /\ fault' = IF W(0) \in DOMAIN memory THEN "index out of bounds"
                ELSE "no program scroll"
    /\ UNCHANGED <<regs, pc, halted, memory, reuse, out, inp, cycles, last>>

\* line 111
UnknownOp ==
    /\ Running
    /\ CanFetch
    /\ number(Fetched) \notin 0 .. 13
    /\ Fatal("unknown op number")
    /\ UNCHANGED <<cycles, last>>

\* lines 94-112: the word at pc of array 0 is fetched and its number is n
Dispatch(n) ==
    /\ Running
    /\ CanFetch
    /\ number(Fetched) = n

SpinConditionalMove == Dispatch(0) /\ conditional_move(Fetched) /\ Executed(Fetched)
SpinArrayIndex == Dispatch(1) /\ array_index(Fetched) /\ Executed(Fetched)
SpinArrayAmendment == Dispatch(2) /\ array_amendment(Fetched) /\ Executed(Fetched)
SpinAddition == Dispatch(3) /\ addition(Fetched) /\ Executed(Fetched)
SpinMultiplication == Dispatch(4) /\ multiplication(Fetched) /\ Executed(Fetched)
SpinDivision == Dispatch(5) /\ division(Fetched) /\ Executed(Fetched)
SpinNotAnd == Dispatch(6) /\ not_and(Fetched) /\ Executed(Fetched)
SpinHalt == Dispatch(7) /\ halt(Fetched) /\ Executed(Fetched)
SpinAllocation == Dispatch(8) /\ allocation(Fetched) /\ Executed(Fetched)
SpinAbandonment == Dispatch(9) /\ abandonment(Fetched) /\ Executed(Fetched)
SpinOutput == Dispatch(10) /\ output(Fetched) /\ Executed(Fetched)
SpinInput == Dispatch(11) /\ input(Fetched) /\ Executed(Fetched)
SpinLoadProgram == Dispatch(12) /\ load_program(Fetched) /\ Executed(Fetched)
SpinOrthography == Dispatch(13) /\ orthography(Fetched) /\ Executed(Fetched)

Next ==
    \/ FetchPanic
    \/ UnknownOp
    \/ SpinConditionalMove
    \/ SpinArrayIndex
    \/ SpinArrayAmendment
    \/ SpinAddition
    \/ SpinMultiplication
    \/ SpinDivision
    \/ SpinNotAnd
    \/ SpinHalt
    \/ SpinAllocation
    \/ SpinAbandonment
    \/ SpinOutput
    \/ SpinInput
    \/ SpinLoadProgram
    \/ SpinOrthography

Spec == Init /\ [][Next]_vars

(***************************************************************************)
(* The handlers under every sequence of operators: the machine of          *)
(* scenario 1 (the image [Halt]) is handed operator words one after the    *)
(* other, whatever array 0 holds.                                          *)
(***************************************************************************)
InitOps ==
    /\ new(<<Standard(7, 0, 0, 0)>>)
    /\ fault = "none"
    /\ out = <<>>
    /\ inp = <<65>>
    /\ cycles = 0
    /\ last = NoOperator

OpConditionalMove == Running /\ \E op \in ByNumber[0] : conditional_move(op) /\ Executed(op)
OpArrayIndex == Running /\ \E op \in ByNumber[1] : array_index(op) /\ Executed(op)
OpArrayAmendment == Running /\ \E op \in ByNumber[2] : array_amendment(op) /\ Executed(op)
OpAddition == Running /\ \E op \in ByNumber[3] : addition(op) /\ Executed(op)
OpMultiplication == Running /\ \E op \in ByNumber[4] : multiplication(op) /\ Executed(op)
OpDivision == Running /\ \E op \in ByNumber[5] : division(op) /\ Executed(op)
OpNotAnd == Running /\ \E op \in ByNumber[6] : not_and(op) /\ Executed(op)
OpHalt == Running /\ \E op \in ByNumber[7] : halt(op) /\ Executed(op)
OpAllocation == Running /\ \E op \in ByNumber[8] : allocation(op) /\ Executed(op)
OpAbandonment == Running /\ \E op \in ByNumber[9] : abandonment(op) /\ Executed(op)
OpOutput == Running /\ \E op \in ByNumber[10] : output(op) /\ Executed(op)
OpInput == Running /\ \E op \in ByNumber[11] : input(op) /\ Executed(op)
OpLoadProgram == Running /\ \E op \in ByNumber[12] : load_program(op) /\ Executed(op)
OpOrthography == Running /\ \E op \in ByNumber[13] : orthography(op) /\ Executed(op)

NextOps ==
    \/ OpConditionalMove
    \/ OpArrayIndex
    \/ OpArrayAmendment
    \/ OpAddition
    \/ OpMultiplication
    \/ OpDivision
    \/ OpNotAnd
    \/ OpHalt
    \/ OpAllocation
    \/ OpAbandonment
    \/ OpOutput
    \/ OpInput
    \/ OpLoadProgram
    \/ OpOrthography

SpecOps == InitOps /\ [][NextOps]_vars

(***************************************************************************)
(* Properties.                                                             *)
(***************************************************************************)
\* this step executed operator number n to its end
Completed(n) == cycles' = cycles + 1 /\ last'.num = n /\ fault' = "none"

\* the identifiers in the reuse pool
Pooled == {reuse[i] : i \in 1 .. Len(reuse)}

Zeros(n) == [i \in 1 .. n |-> W(0)]

\* C1: every cycle of spin_cycle that executes an operator other than Load
\* Program without a fatal error leaves pc one above what it was.
C1_PcAdvances ==
    [][\A n \in (0 .. 13) \ {12} : Completed(n) => pc' = AddWrap(pc, W(1))]_vars

\* C2: every Allocation that completes binds one identifier: it is not 0, it
\* was not live before the Allocation and it is live after it.
C2_AllocationBindsFresh ==
    [][Completed(8) =>
         \E id \in DOMAIN memory' :
            /\ id # W(0)
            /\ id \notin DOMAIN memory
            /\ DOMAIN memory' = DOMAIN memory \cup {id}]_vars

\* C2's case: two Allocations have completed, the second with the first's
\* array still live.
C2_Witness ==
    /\ last.num = 8
    /\ fault = "none"
    /\ Cardinality(DOMAIN memory) = 3

\* C3: after the Allocation fetched as op completes, R[B] holds the identifier
\* it bound, which names a live array of (old) R[C] zero words.
C3_AllocationSetsRegister ==
    [][Completed(8) =>
         LET id == regs'[B(Fetched)]
         IN  /\ id \in DOMAIN memory' \ DOMAIN memory
             /\ memory'[id] = Zeros(regs[C(Fetched)][2])]_vars

\* C4: with a non-empty reuse pool a completed Allocation binds an identifier
\* of the pool and removes it from the pool; directly after the Abandonment of
\* id it binds id.
C4_AllocationReuses ==
    [][(Completed(8) /\ reuse # <<>>) =>
         \E id \in Pooled :
            /\ id \notin DOMAIN memory
            /\ DOMAIN memory' = DOMAIN memory \cup {id}
            /\ Len(reuse') = Len(reuse) - 1
            /\ id \notin {reuse'[i] : i \in 1 .. Len(reuse')}
            /\ (last.num = 9 /\ fault = "none") => id = last.idx]_vars

\* C4's case: the Allocation that ran last took its identifier from the pool.
C4_Witness ==
    /\ last.num = 8
    /\ last.reused
    /\ fault = "none"
    /\ last.idx \in DOMAIN memory

\* C5: no identifier is both a key of memory and an element of the reuse
\* pool.
C5_LiveAndPoolDisjoint == DOMAIN memory \cap Pooled = {}

\* C5's case: an Allocation, an Abandonment and a Load Program have run, and
\* the abandoned identifier is in the pool.
C5_Witness ==
    /\ last.num = 12
    /\ fault = "none"
    /\ reuse # <<>>

\* C6 as stated: whenever the loop is about to fetch, identifier 0 is live
\* and pc is below the length of array 0.
C6_FetchInRange == (~halted /\ fault = "none") => CanFetch

\* C6 as amended: identifier 0 is live in every state; a fetch with pc at or
\* beyond the length of array 0 ends the process and executes nothing, so
\* every operator that executes was fetched at a pc below that length.
C6_ZeroLiveFetchChecked ==
    [][/\ W(0) \in DOMAIN memory
       /\ W(0) \in DOMAIN memory'
       /\ (cycles' = cycles + 1) => InRange(pc, memory[W(0)])
       /\ ~InRange(pc, memory[W(0)]) => (fault' # "none" /\ cpu' = cpu)]_vars

\* C6's case: a Load Program has set pc beyond the end of array 0 and the
\* next fetch has ended the process.
C6_Witness ==
    /\ last.num = 12
    /\ fault = "index out of bounds"
    /\ ~InRange(pc, memory[W(0)])

\* C7: after the Load Program fetched as op completes, pc is the content of
\* R[C].
C7_LoadProgramSetsPc ==
    [][Completed(12) => pc' = regs[C(Fetched)]]_vars

\* C8: a completed Load Program from identifier id leaves id live with the
\* words it had, and array 0 afterwards is equal to that array (for id = 0:
\* array 0 is unchanged).
C8_LoadProgramKeepsSource ==
    [][Completed(12) =>
         \A op \in ByNumber[12] :
            (load_program(op) /\ Executed(op)) =>
               LET id == regs[B(op)]
               IN  /\ id \in DOMAIN memory
                   /\ id \in DOMAIN memory'
                   /\ memory'[id] = memory[id]
                   /\ memory'[W(0)] = memory[id]]_vars

\* C8's case: a Load Program from an allocated array of two words has
\* completed.
C8_Witness ==
    /\ last.num = 12
    /\ fault = "none"
    /\ last.idx # W(0)
    /\ last.idx \in DOMAIN memory
    /\ Len(memory[W(0)]) = 2

\* C9: a completed Array Amendment changes the word at offset R[B] of array
\* R[A] to R[C] and nothing else: every other word of every live array, every
\* length and the set of live identifiers stay as they were.
C9_AmendmentChangesOneWord ==
    [][Completed(2) =>
         \A op \in ByNumber[2] :
            (array_amendment(op) /\ Executed(op)) =>
               /\ DOMAIN memory' = DOMAIN memory
               /\ \A k \in DOMAIN memory :
                     /\ Len(memory'[k]) = Len(memory[k])
                     /\ \A i \in 1 .. Len(memory[k]) :
                           memory'[k][i] =
                              IF k = regs[A(op)] /\ i = regs[B(op)][2] + 1
                              THEN regs[C(op)]
                              ELSE memory[k][i]]_vars

\* C9's case: array 0 was loaded from an allocated array of two words, and an
\* Array Amendment to that array has made the two differ.
C9_Witness ==
    /\ last.num = 2
    /\ fault = "none"
    /\ last.idx # W(0)
    /\ Len(memory[W(0)]) = 2
    /\ Len(memory[last.idx]) = 2
    /\ memory[last.idx] # memory[W(0)]

\* C10: a completed Addition stores (R[B] + R[C]) mod 2^32 in R[A] and a
\* completed Multiplication stores (R[B] * R[C]) mod 2^32 in R[A].
C10_ArithmeticMod2p32 ==
    [][/\ Completed(3) =>
            \A op \in ByNumber[3] :
               (addition(op) /\ Executed(op)) =>
                  regs'[A(op)] = AddWrap(regs[B(op)], regs[C(op)])
       /\ Completed(4) =>
            \A op \in ByNumber[4] :
               (multiplication(op) /\ Executed(op)) =>
                  regs'[A(op)] = MulWrap(regs[B(op)], regs[C(op)])]_vars

\* the low 25 bits of a word, zero-extended
Low25(w) == <<w[1] % 512, w[2]>>

\* C11: the Orthography fetched as op stores the low 25 bits of op in
\* R[A_special] (bits 27..25 of op) and changes no other register.
C11_OrthographyLoads25Bits ==
    [][Completed(13) =>
         regs' = [regs EXCEPT ![(Fetched[1] \div 512) % 8] = Low25(Fetched)]]_vars

\* the words of the program array
ProgramWords ==
    IF W(0) \in DOMAIN memory
    THEN {memory[W(0)][i] : i \in 1 .. Len(memory[W(0)])}
    ELSE {}

\* C12: for every word of the program whose bits 27..24 are all set, value()
\* is the word's low 24 bits: the opcode, the special register index and bit
\* 24 are removed, as test_operator_special asserts.
C12_ValueIsLow24Bits ==
    \A w \in ProgramWords :
       (w[1] \div 256) % 16 = 15 => value(w) = <<w[1] % 256, w[2]>>

\* C12's case: the Orthography word 0xDF00ACAB, test_operator_special's word
\* with opcode 13, has run and has stored 0xACAB in register 7.
C12_Witness ==
    /\ Special(7, <<256, 44203>>) \in ProgramWords
    /\ last.num = 13
    /\ fault = "none"
    /\ regs[7] = <<0, 44203>>

\* C13: for every word of the program number() is bits 31..28, A() bits 8..6,
\* B() bits 5..3, C() bits 2..0 and A_special() bits 27..25; a word that holds
\* nothing but a standard operator's four fields is assembled back from what
\* the decoder returns.
C13_DecoderExtractsFields ==
    \A w \in ProgramWords :
       /\ number(w) = w[1] \div 4096
       /\ A(w) = (w[2] \div 64) % 8
       /\ B(w) = (w[2] \div 8) % 8
       /\ C(w) = w[2] % 8
       /\ A_special(w) = (w[1] \div 512) % 8
       /\ (w[1] % 4096 = 0 /\ w[2] < 512) =>
             w = Standard(number(w), A(w), B(w), C(w))

\* C13's case: test_operator's word 0xE00001AC has been fetched and decoded
\* (its number, 14, is no operator's).
C13_Witness ==
    /\ Standard(14, 6, 5, 4) \in ProgramWords
    /\ pc = W(0)
    /\ At(memory[W(0)], pc) = Standard(14, 6, 5, 4)
    /\ fault = "unknown op number"

\* C14: after a completed Abandonment of id, id is not live and is in the
\* reuse pool, and every other live identifier is still live with the words
\* it had.
C14_AbandonmentFreesOne ==
    [][Completed(9) =>
         \A op \in ByNumber[9] :
            (abandonment(op) /\ Executed(op)) =>
               LET id == regs[C(op)]
               IN  /\ id \notin DOMAIN memory'
                   /\ id \in {reuse'[i] : i \in 1 .. Len(reuse')}
                   /\ DOMAIN memory' = DOMAIN memory \ {id}
                   /\ \A k \in DOMAIN memory \ {id} :
                         memory'[k] = memory[k]]_vars

\* C14's case: an Abandonment has completed while another allocated array
\* was live.
C14_Witness ==
    /\ last.num = 9
    /\ fault = "none"
    /\ last.idx \in Pooled
    /\ Cardinality(DOMAIN memory) = 2

\* C15: Abandonment with R[C] = 0, or with R[C] not live, ends the run in the
\* error state; no array is removed and nothing is pushed onto the pool.
C15_AbandonmentFatal ==
    [][\A op \in ByNumber[9] :
         (/\ last'.num = 9
          /\ abandonment(op)
          /\ Executed(op)
          /\ (regs[C(op)] = W(0) \/ regs[C(op)] \notin DOMAIN memory)) =>
            /\ fault' # "none"
            /\ memory' = memory
            /\ reuse' = reuse]_vars

\* C15's case: the Abandonment of an identifier abandoned before and not
\* allocated again has ended the run.
C15_Witness ==
    /\ last.num = 9
    /\ fault = "removing in-use index"
    /\ last.idx \in Pooled
    /\ last.idx \notin DOMAIN memory

\* C15's other case: the Abandonment of identifier 0 has ended the run with
\* the program array still live.
C15_WitnessZero ==
    /\ last.num = 9
    /\ fault = "attempt to abandon the 0 array"
    /\ W(0) \in DOMAIN memory

\* C16: Output with R[C] > 255 ends the run in the error state and emits no
\* byte; with R[C] <= 255 it appends exactly the byte R[C] to the output.
C16_OutputRangeChecked ==
    [][\A op \in ByNumber[10] :
         (last'.num = 10 /\ output(op) /\ Executed(op)) =>
            IF regs[C(op)][1] # 0 \/ regs[C(op)][2] > 255
            THEN fault' # "none" /\ out' = out
            ELSE fault' = "none" /\ out' = Append(out, regs[C(op)][2])]_vars

\* C17: Input at end-of-stream sets R[C] to 0xFFFFFFFF without a fatal error;
\* with a byte b available it sets R[C] to b and consumes that one byte.
C17_InputEofIsAllOnes ==
    [][Dispatch(11) =>
         IF inp = <<>>
         THEN /\ fault' = "none"
              /\ regs' = [regs EXCEPT ![C(Fetched)] = U32Max]
         ELSE /\ fault' = "none"
              /\ regs' = [regs EXCEPT ![C(Fetched)] = W(Head(inp))]
              /\ inp' = Tail(inp)]_vars

\* C18: the run starts not halted; halted becomes true only in a step that
\* executes opcode 7; from a halted state no instruction is fetched or
\* executed, and registers, arena, pool, pc and output stay as they are.
C18_HaltedIsFinal ==
    /\ ~halted
    /\ [][/\ (~halted /\ halted') =>
                (Dispatch(7) /\ last'.num = 7 /\ fault' = "none")
          /\ halted =>
                (cpu' = cpu /\ out' = out /\ inp' = inp /\ cycles' = cycles)]_vars

\* C18's case: Halt has run as the second instruction, after Load Program
\* moved the pc to it.
C18_Witness ==
    /\ halted
    /\ last.num = 7
    /\ cycles = 2
    /\ pc = W(1)

\* C19: started on the image [0xD0000041, 0xA0000000, 0x70000000] the run
\* reaches Halted through opcode 7 with the output exactly the byte 65; the
\* image has three instructions and no jump, so the third executed
\* instruction is the Halt.
C19_ScenarioAHalts ==
    (W(0) \in DOMAIN memory /\ memory[W(0)] = ScenarioA /\ cycles >= 3) =>
       (halted /\ last.num = 7 /\ out = <<65>>)

\* C20: the allocator's collision abort is never reached: whenever the pool
\* is empty, memory.len() + 1 is not a live identifier; no identifier occurs
\* twice in the pool; so the key the next Allocation inserts under is absent.
C20_NoAllocatorCollision ==
    /\ fault # "BUG: index incorrectly calculated"
    /\ reuse = <<>> => W(Cardinality(DOMAIN memory) + 1) \notin DOMAIN memory
    /\ \A i \in 1 .. Len(reuse) : \A j \in 1 .. Len(reuse) :
          reuse[i] = reuse[j] => i = j
    /\ allocation_idx \notin DOMAIN memory

\* C20's case: an identifier was abandoned and an Allocation took it back
\* from the pool, leaving the pool empty, so the next identifier is minted
\* from the live count again.
C20_Witness ==
    /\ last.num = 8
    /\ last.reused
    /\ reuse = <<>>
    /\ fault = "none"
    /\ DOMAIN memory = {W(0), W(2)}
    /\ allocation_idx = W(3)

=============================================================================
